---- MODULE Spec2Model ----
(***************************************************************************)
(* The native command surface of LostEditor (src-tauri/src/main.rs): the   *)
(* file service, the settings store, the dialog bridge, the menu relay and *)
(* the startup auto-loader, as one state machine over a small file system. *)
(***************************************************************************)
EXTENDS Naturals, Sequences, FiniteSets, TLC

\* Bounds of the model.
MaxReq == 2
MaxClicks == 2
Workers == 2

Req == 1..MaxReq

---------------------------------------------------------------------------
(* Option<T>: None is the empty sequence, Some(x) the one-element sequence. *)
None == <<>>
Some(x) == <<x>>
IsSome(o) == Len(o) = 1

---------------------------------------------------------------------------
(* serde_json::Value.                                                       *)
JNull == [t |-> "null"]
JNum(n) == [t |-> "num", v |-> n]
JStr(s) == [t |-> "str", v |-> s]
JArr(a) == [t |-> "arr", v |-> a]
JObj(o) == [t |-> "obj", v |-> o]

\* Value::get(key): None unless the value is an object holding the key.
Get(j, key) == IF j.t = "obj" /\ key \in DOMAIN j.v THEN Some(j.v[key]) ELSE None
\* Option<&Value>::and_then(|v| v.as_str())
AsStr(o) == IF IsSome(o) /\ o[1].t = "str" THEN Some(o[1].v) ELSE None
\* Option<&Value>::and_then(|v| v.as_array())
AsArray(o) == IF IsSome(o) /\ o[1].t = "arr" THEN Some(o[1].v) ELSE None

---------------------------------------------------------------------------
(* The file system.  A path is the sequence of its components; the root is  *)
(* the empty sequence and always a directory.                               *)
app_data_dir == <<"data">>
get_settings_path == Append(app_data_dir, "settings.json")
ProjA == <<"a.proj">>
ProjB == <<"b.proj">>
Paths == {app_data_dir, get_settings_path, ProjA, ProjB}

Parent(p) == SubSeq(p, 1, Len(p) - 1)
Ancestors(p) == {SubSeq(p, 1, i) : i \in 1..(Len(p) - 1)}

\* A text is a sequence of chunks of bytes: the braces of a JSON object, one
\* member of it (key and value), bytes that are no JSON, or bytes that are no
\* UTF-8.  Two texts are equal byte for byte iff the sequences are equal.
LB == [c |-> "{"]
RB == [c |-> "}"]
Member(k, j) == [c |-> "member", key |-> k, val |-> j]
Junk == [c |-> "junk"]
BadUtf8 == [c |-> "badutf8"]

Absent == [k |-> "none"]
Dir == [k |-> "dir"]
File(c) == [k |-> "file", c |-> c]

Kind(f, p) == IF p = <<>> THEN "dir" ELSE f[p].k

\* The error of resolving the directories above p, if any: the topmost
\* ancestor that is no directory decides it.
AncestorErr(f, p) ==
    LET bad == {a \in Ancestors(p) : Kind(f, a) # "dir"}
    IN  IF bad = {} THEN None
        ELSE LET top == CHOOSE a \in bad : \A b \in bad : Len(a) <= Len(b)
             IN  IF Kind(f, top) = "none" THEN Some("NotFound")
                 ELSE Some("NotADirectory")

Ok(v) == [ok |-> TRUE, v |-> v]
Err(e) == [ok |-> FALSE, e |-> e]

\* A variant that reads a missing file as the empty text.
read_to_string_or_default(f, p) ==
    IF ~IsSome(AncestorErr(f, p)) /\ Kind(f, p) = "file"
          /\ \A i \in 1..Len(f[p].c) : f[p].c[i] # BadUtf8
    THEN [ok |-> TRUE, v |-> f[p].c]
    ELSE [ok |-> TRUE, v |-> <<>>]

\* std::fs::read_to_string: the whole content, which must be UTF-8.
read_to_string(f, p) ==
    IF IsSome(AncestorErr(f, p)) THEN Err(AncestorErr(f, p)[1])
    ELSE IF Kind(f, p) = "none" THEN Err("NotFound")
    ELSE IF Kind(f, p) = "dir" THEN Err("IsADirectory")
    ELSE IF \E i \in 1..Len(f[p].c) : f[p].c[i] = BadUtf8 THEN Err("InvalidData")
    ELSE Ok(f[p].c)

\* A variant of the first half that opens without O_TRUNC.
fs_open_keep(f, p) ==
    IF IsSome(AncestorErr(f, p)) THEN [ok |-> FALSE, e |-> AncestorErr(f, p)[1]]
    ELSE IF Kind(f, p) = "dir" THEN [ok |-> FALSE, e |-> "IsADirectory"]
    ELSE [ok |-> TRUE, v |-> IF Kind(f, p) = "file" THEN f ELSE [f EXCEPT ![p] = File(<<>>)]]

\* std::fs::write, first half: open(O_WRONLY | O_CREAT | O_TRUNC).
fs_open_trunc(f, p) ==
    IF IsSome(AncestorErr(f, p)) THEN Err(AncestorErr(f, p)[1])
    ELSE IF Kind(f, p) = "dir" THEN Err("IsADirectory")
    ELSE Ok([f EXCEPT ![p] = File(<<>>)])

\* A variant of the second half that calls write once, not write_all: only
\* the first chunk is written.
fs_write_once(f, p, data) ==
    IF Kind(f, p) = "file"
    THEN [f EXCEPT ![p] = File(SubSeq(data, 1, 1) \o SubSeq(f[p].c, 2, Len(f[p].c)))]
    ELSE f

\* std::fs::write, second half: write_all at offset 0 of the open file.  What
\* another writer put beyond the end of data stays.
fs_write_all(f, p, data) ==
    IF Kind(f, p) = "file"
    THEN [f EXCEPT ![p] = File(data \o SubSeq(f[p].c, Len(data) + 1, Len(f[p].c)))]
    ELSE f

\* std::fs::create_dir_all: every missing directory down to p is created; a
\* regular file on the way is an error, and what lies above it is created.
create_dir_all(f, p) ==
    LET chain == Ancestors(p) \cup {p}
        bad == {a \in chain : Kind(f, a) = "file"}
    IN  IF bad = {}
        THEN Ok([q \in DOMAIN f |-> IF q \in chain THEN Dir ELSE f[q]])
        ELSE LET top == CHOOSE a \in bad : \A b \in bad : Len(a) <= Len(b)
             IN  [ok |-> FALSE,
                  e |-> IF top = p THEN "AlreadyExists" ELSE "NotADirectory",
                  v |-> [q \in DOMAIN f |->
                            IF q \in chain /\ Len(q) < Len(top) THEN Dir ELSE f[q]]]

\* std::path::Path::exists
exists(f, p) == ~IsSome(AncestorErr(f, p)) /\ Kind(f, p) # "none"

---------------------------------------------------------------------------
(* FileResult, and the two envelopes every file command builds.             *)
FileResult(s, d, e) == [success |-> s, data |-> d, error |-> e]
Success(d) == FileResult(TRUE, d, None)
\* A variant of the failure envelope that carries an empty payload.
FailureWithData(e) == FileResult(FALSE, Some(<<>>), Some(e))
Failure(e) == FileResult(FALSE, None, Some(e))

---------------------------------------------------------------------------
VARIABLES
    fs,       \* the file system: Paths -> Absent | Dir | File(text)
    call,     \* per request slot: the command invoked and its arguments
    pc,       \* per request slot: where the invocation stands
    res,      \* per request slot: Option of the value returned to the caller
    wr,       \* per request slot: bookkeeping of the write it has in progress
    hist,     \* per path: the last write call on it and how it ended
    boot,     \* the file system as it was when the process started
    chan,     \* per request slot: the mpsc channel of its dialog
    picked,   \* per request slot: the native pickers it has invoked
    al_pc,    \* the auto-load task: its state
    settings_result,  \* the auto-load task: Option of the envelope it loaded
    last_project,     \* the auto-load task: Option of the path it found
    elapsed,  \* the auto-load task: its sleep is over
    window,   \* the webview window "main" exists
    events,   \* what has been emitted to the window, in order
    clicks,   \* the menu item ids activated so far, in order
    evals,    \* the scripts evaluated in the window, in order
    devtools  \* the devtools of the window are open

cmdVars == <<call, pc, res>>
writeVars == <<wr, hist>>
dialogVars == <<chan, picked>>
autoVars == <<al_pc, settings_result, last_project, elapsed>>
menuVars == <<clicks, evals, devtools>>
vars == <<fs, boot, cmdVars, writeVars, dialogVars, autoVars, window, events, menuVars>>

NoCall == [op |-> "none", path |-> <<>>, data |-> <<>>, opts |-> JNull]
Cmd(op, p, d, o) == [op |-> op, path |-> p, data |-> d, opts |-> o]
NoWrite == [clean |-> FALSE, made |-> FALSE]
\* No channel yet: nothing queued, no sender.
NoChannel == [q |-> <<>>, tx |-> FALSE]

\* A worker thread is held by an invocation from its start to its return.
\* The auto-load task holds one between its load and its check; it holds none
\* while it sleeps.
Busy == {r \in Req : pc[r] \in {"opened", "recv"}}
BusyWorkers == Cardinality(Busy) + (IF al_pc = "SettingsRead" THEN 1 ELSE 0)
FreeWorker == BusyWorkers < Workers

\* The file a write command writes.
Target(c) == IF c.op = "save_settings" THEN get_settings_path ELSE c.path

\* The other invocations that hold path p open for writing.
Writers(r, p) == {q \in Req \ {r} : pc[q] = "opened" /\ Target(call[q]) = p}

\* hist[p]: "untouched" since the start; "open" once a write call truncated p;
\* then how the last write call on p ended: "failed" (it could not open p),
\* "ok" (its data landed, and no other call opened or wrote p between its own
\* open and write) or "torn" (its data landed, another call's open or write
\* in between).  made: it found the directory above p missing.
Untouched == [st |-> "untouched", op |-> "none", c |-> <<>>, made |-> FALSE]
Written(st, c, made) == [st |-> st, op |-> c.op, c |-> c.data, made |-> made]

---------------------------------------------------------------------------
(* The front-end invokes a command: the lowest free slot takes it.          *)
Invoke(r, c) ==
    /\ pc[r] = "idle"
    /\ \A q \in Req : q < r => pc[q] # "idle"
    /\ call' = [call EXCEPT ![r] = c]
    /\ pc' = [pc EXCEPT ![r] = "queued"]
    /\ UNCHANGED <<fs, boot, menuVars, res, writeVars, dialogVars, autoVars, window, events>>

\* The front-end takes the returned value; the slot is free again.
Return(r) ==
    /\ pc[r] = "done"
    /\ pc' = [pc EXCEPT ![r] = "idle"]
    /\ call' = [call EXCEPT ![r] = NoCall]
    /\ res' = [res EXCEPT ![r] = None]
    /\ picked' = [picked EXCEPT ![r] = <<>>]
    /\ chan' = [chan EXCEPT ![r] = NoChannel]
    /\ UNCHANGED <<fs, boot, menuVars, writeVars, autoVars, window, events>>

Started(r, op) == pc[r] = "queued" /\ call[r].op = op /\ FreeWorker

Finish(r, v) ==
    /\ res' = [res EXCEPT ![r] = Some(v)]
    /\ pc' = [pc EXCEPT ![r] = "done"]

\* The envelope of a read.
ReadEnvelope(got) == IF got.ok THEN Success(Some(got.v)) ELSE Failure(got.e)

read_file(r) ==
    /\ Started(r, "read_file")
    /\ Finish(r, ReadEnvelope(read_to_string(fs, call[r].path)))
    /\ UNCHANGED <<fs, boot, menuVars, call, writeVars, dialogVars, autoVars, window, events>>

\* A write command opens its file: the file is truncated, or the command
\* fails here.  made: the directory above it was missing before the call.
OpenForWrite(r, f, made) ==
    LET p == Target(call[r])
        opened == fs_open_trunc(f, p)
    IN  IF opened.ok
        THEN /\ fs' = opened.v
             /\ pc' = [pc EXCEPT ![r] = "opened"]
             /\ wr' = [q \in Req |->
                         IF q = r THEN [clean |-> TRUE, made |-> made]
                         ELSE IF q \in Writers(r, p) THEN [wr[q] EXCEPT !.clean = FALSE]
                         ELSE wr[q]]
             /\ hist' = [hist EXCEPT ![p] = Written("open", call[r], made)]
             /\ UNCHANGED <<boot, menuVars, call, res, dialogVars, autoVars, window, events>>
        ELSE /\ fs' = f
             /\ Finish(r, Failure(opened.e))
             /\ hist' = [hist EXCEPT ![p] = Written("failed", call[r], made)]
             /\ UNCHANGED <<boot, menuVars, call, wr, dialogVars, autoVars, window, events>>

\* A write command writes its data through the file it opened, and returns.
WriteAndFinish(r) ==
    LET p == Target(call[r])
    IN  /\ pc[r] = "opened"
        /\ fs' = fs_write_all(fs, p, call[r].data)
        /\ Finish(r, Success(None))
        /\ wr' = [q \in Req |->
                    IF q = r THEN NoWrite
                    ELSE IF q \in Writers(r, p) THEN [wr[q] EXCEPT !.clean = FALSE]
                    ELSE wr[q]]
        /\ hist' = [hist EXCEPT ![p] =
                      Written(IF wr[r].clean THEN "ok" ELSE "torn", call[r], wr[r].made)]
        /\ UNCHANGED <<boot, menuVars, call, dialogVars, autoVars, window, events>>

write_file(r) ==
    /\ Started(r, "write_file")
    /\ OpenForWrite(r, fs, FALSE)

write_file_write(r) ==
    /\ call[r].op = "write_file"
    /\ WriteAndFinish(r)

load_settings(r) ==
    /\ Started(r, "load_settings")
    /\ Finish(r, ReadEnvelope(read_to_string(fs, get_settings_path)))
    /\ UNCHANGED <<fs, boot, menuVars, call, writeVars, dialogVars, autoVars, window, events>>

\* A variant that does not create the directory of the settings file.
EnsureParentSkipped(f) == f

\* save_settings, "Ensure the directory exists": the outcome is dropped.
EnsureParent(f) == create_dir_all(f, Parent(get_settings_path)).v

\* A variant that returns the failure of creating the directory.
save_settings_checked(r) ==
    /\ Started(r, "save_settings")
    /\ LET made == create_dir_all(fs, Parent(get_settings_path))
       IN  IF made.ok
           THEN OpenForWrite(r, made.v, Kind(fs, Parent(get_settings_path)) = "none")
           ELSE /\ fs' = made.v
                /\ Finish(r, Failure(made.e))
                /\ UNCHANGED <<boot, menuVars, call, writeVars, dialogVars, autoVars,
                               window, events>>

save_settings(r) ==
    /\ Started(r, "save_settings")
    /\ OpenForWrite(r, EnsureParent(fs), Kind(fs, Parent(get_settings_path)) = "none")

save_settings_write(r) ==
    /\ call[r].op = "save_settings"
    /\ WriteAndFinish(r)

\* The envelope of a command that returns no data.
UnitEnvelope(got) == IF got.ok THEN Success(None) ELSE Failure(got.e)

create_dir(r) ==
    /\ Started(r, "create_dir")
    /\ LET made == create_dir_all(fs, call[r].path)
       IN  /\ fs' = made.v
           /\ Finish(r, UnitEnvelope(made))
    /\ UNCHANGED <<boot, menuVars, call, writeVars, dialogVars, autoVars, window, events>>

---------------------------------------------------------------------------
(* The dialog bridge.                                                       *)

\* "Parse options": the title and the default path, if they are strings.
ParseOptions(options) ==
    [title |-> AsStr(Get(options, "title")),
     default_path |-> AsStr(Get(options, "defaultPath"))]

\* A variant that looks at the first flag only.
directory_mode_first(options) ==
    LET arr == AsArray(Get(options, "properties"))
    IN  IF IsSome(arr) /\ Len(arr[1]) > 0
        THEN AsStr(Some(arr[1][1])) = Some("openDirectory")
        ELSE FALSE

\* "Check for directory mode": properties is an array, one element of which
\* is the string "openDirectory".
directory_mode(options) ==
    LET arr == AsArray(Get(options, "properties"))
    IN  IF IsSome(arr)
        THEN \E i \in 1..Len(arr[1]) : AsStr(Some(arr[1][i])) = Some("openDirectory")
        ELSE FALSE

\* A variant that keeps every element of extensions, string or not.
ExtsUnfiltered(extensions) == [i \in 1..Len(extensions) |-> extensions[i].v]

\* extensions.iter().filter_map(|e| e.as_str()).collect()
Exts(extensions) ==
    LET strs == SelectSeq(extensions, LAMBDA e : e.t = "str")
    IN  [i \in 1..Len(strs) |-> strs[i].v]

\* A variant that also wants the name not to be empty.
AddsNamed(filter) ==
    /\ IsSome(AsStr(Get(filter, "name")))
    /\ AsStr(Get(filter, "name"))[1] # ""
    /\ IsSome(AsArray(Get(filter, "extensions")))
    /\ Exts(AsArray(Get(filter, "extensions"))[1]) # <<>>

\* One filter entry is added: it has a string name, an array of extensions,
\* and a string among them.
Adds(filter) ==
    /\ IsSome(AsStr(Get(filter, "name")))
    /\ IsSome(AsArray(Get(filter, "extensions")))
    /\ Exts(AsArray(Get(filter, "extensions"))[1]) # <<>>

\* "Handle filters": the add_filter calls, in the order of the entries.
Filters(options) ==
    LET arr == AsArray(Get(options, "filters"))
        added == IF IsSome(arr) THEN SelectSeq(arr[1], Adds) ELSE <<>>
    IN  [i \in 1..Len(added) |->
            [name |-> AsStr(Get(added[i], "name"))[1],
             exts |-> Exts(AsArray(Get(added[i], "extensions"))[1])]]

\* The builder handed to the picker.  The open dialog takes the default path
\* as its directory, the save dialog as its file name.
OpenBuilder(options) ==
    [title |-> ParseOptions(options).title,
     directory |-> ParseOptions(options).default_path,
     file_name |-> None,
     filters |-> Filters(options)]
SaveBuilder(options) ==
    [title |-> ParseOptions(options).title,
     directory |-> None,
     file_name |-> ParseOptions(options).default_path,
     filters |-> Filters(options)]

\* std::sync::mpsc::channel(): nothing queued, the sender alive.
NewChannel == [q |-> <<>>, tx |-> TRUE]

\* What the picker hands its callback: a FilePath, shown by to_string.
FilePath(p) == [path |-> p]
to_string(fp) == fp.path

\* A variant that reports canceled whatever the picker handed over.
OpenResultAlwaysCanceled(path) ==
    [canceled |-> TRUE,
     filePaths |-> IF IsSome(path) THEN <<to_string(path[1])>> ELSE <<>>]

\* The value the callback of an open dialog sends.
OpenResult(path) ==
    IF IsSome(path) THEN [canceled |-> FALSE, filePaths |-> <<to_string(path[1])>>]
    ELSE [canceled |-> TRUE, filePaths |-> <<>>]
\* The value the callback of a save dialog sends.
SaveResult(path) ==
    IF IsSome(path) THEN [canceled |-> FALSE, filePath |-> Some(to_string(path[1]))]
    ELSE [canceled |-> TRUE, filePath |-> None]

\* What became of the callback handed to a picker: called with the path
\* chosen or with none, or dropped without a call.  picked[r][1].answer
\* keeps it, None while the picker holds the callback.
Called(path) == [called |-> TRUE, path |-> path]
Dropped == [called |-> FALSE, path |-> None]

\* The dialog is set up and the picker invoked with its callback; the command
\* goes on to wait on the channel, on its worker thread.
InvokePicker(r, kind, builder) ==
    /\ picked' = [picked EXCEPT ![r] =
                    Append(picked[r], [kind |-> kind, builder |-> builder, answer |-> None])]
    /\ chan' = [chan EXCEPT ![r] = NewChannel]
    /\ pc' = [pc EXCEPT ![r] = "recv"]
    /\ UNCHANGED <<fs, boot, menuVars, call, res, writeVars, autoVars, window, events>>

show_open_dialog(r) ==
    /\ Started(r, "show_open_dialog")
    /\ InvokePicker(r, IF directory_mode(call[r].opts) THEN "pick_folder" ELSE "pick_file",
                    OpenBuilder(call[r].opts))

show_save_dialog(r) ==
    /\ Started(r, "show_save_dialog")
    /\ InvokePicker(r, "save_file", SaveBuilder(call[r].opts))

\* The native picker calls the callback, with the path chosen or with none:
\* the callback sends its value, and with it the sender is gone.
picker_callback(r, path) ==
    /\ pc[r] = "recv"
    /\ chan[r].tx
    /\ chan' = [chan EXCEPT ![r] =
                  [q |-> Append(chan[r].q,
                                IF call[r].op = "show_save_dialog" THEN SaveResult(path)
                                ELSE OpenResult(path)),
                   tx |-> FALSE]]
    /\ picked' = [picked EXCEPT ![r][1].answer = Some(Called(path))]
    /\ UNCHANGED <<fs, boot, menuVars, cmdVars, writeVars, autoVars, window, events>>

\* The native layer drops the callback without calling it.
picker_dropped(r) ==
    /\ pc[r] = "recv"
    /\ chan[r].tx
    /\ chan' = [chan EXCEPT ![r].tx = FALSE]
    /\ picked' = [picked EXCEPT ![r][1].answer = Some(Dropped)]
    /\ UNCHANGED <<fs, boot, menuVars, cmdVars, writeVars, autoVars, window, events>>

\* A variant of recv that does not see the sender go away.
RecvReadyValueOnly(ch) == ch.q # <<>>

\* rx.recv() returns: a value is queued, or the sender is gone.
RecvReady(ch) == ch.q # <<>> \/ ~ch.tx

\* A variant with one channel shared by the requests: a waiting request takes
\* whatever value is queued, its own or another's.
RecvShared(r, fallback) ==
    /\ pc[r] = "recv"
    /\ \E q \in Req :
          /\ chan[q].q # <<>>
          /\ Finish(r, Head(chan[q].q))
          /\ chan' = [chan EXCEPT ![q].q = Tail(chan[q].q)]
    /\ UNCHANGED <<fs, boot, menuVars, call, writeVars, picked, autoVars, window, events>>

\* rx.recv().unwrap_or_else(fallback)
Recv(r, fallback) ==
    /\ pc[r] = "recv"
    /\ RecvReady(chan[r])
    /\ Finish(r, IF chan[r].q # <<>> THEN Head(chan[r].q) ELSE fallback)
    /\ chan' = [chan EXCEPT ![r] = [q |-> IF chan[r].q # <<>> THEN Tail(chan[r].q) ELSE <<>>,
                                    tx |-> chan[r].tx]]
    /\ UNCHANGED <<fs, boot, menuVars, call, writeVars, picked, autoVars, window, events>>

\* A variant whose fallback reports the broken channel.
show_open_dialog_recv_error(r) ==
    /\ call[r].op = "show_open_dialog"
    /\ Recv(r, [canceled |-> TRUE, filePaths |-> <<>>, error |-> "channel closed"])

show_open_dialog_recv(r) ==
    /\ call[r].op = "show_open_dialog"
    /\ Recv(r, [canceled |-> TRUE, filePaths |-> <<>>])

show_save_dialog_recv(r) ==
    /\ call[r].op = "show_save_dialog"
    /\ Recv(r, [canceled |-> TRUE, filePath |-> None])

---------------------------------------------------------------------------
(* The menu and the relay of its events.                                    *)

\* create_menu: the ids of the items of the File, Edit and View submenus.
FileItems ==
    {"new-project", "open-project", "new-map", "new-tileset", "new-entity",
     "save-project", "save-project-as"}
EditItems == {"undo", "redo", "cut", "copy", "paste"}
ViewItems == {"reload", "toggle-devtools"}
create_menu == FileItems \cup EditItems \cup ViewItems

\* window.emit(name, ())
MenuEvent(name) == [name |-> name, payload |-> <<>>]

\* The match of on_menu_event on the id: what is emitted, evaluated and
\* toggled, given what was before.
MenuMatch(id, ev, scripts, open) ==
    CASE id = "new-project" ->
            [events |-> Append(ev, MenuEvent("menu:new-project")), evals |-> scripts, devtools |-> open]
      [] id = "open-project" ->
            [events |-> Append(ev, MenuEvent("menu:open-project")), evals |-> scripts, devtools |-> open]
      [] id = "new-map" ->
            [events |-> Append(ev, MenuEvent("menu:new-map")), evals |-> scripts, devtools |-> open]
      [] id = "new-tileset" ->
            [events |-> Append(ev, MenuEvent("menu:new-tileset")), evals |-> scripts, devtools |-> open]
      [] id = "new-entity" ->
            [events |-> Append(ev, MenuEvent("menu:new-entity")), evals |-> scripts, devtools |-> open]
      [] id = "save-project" ->
            [events |-> Append(ev, MenuEvent("menu:save-project")), evals |-> scripts, devtools |-> open]
      [] id = "save-project-as" ->
            [events |-> Append(ev, MenuEvent("menu:save-project-as")), evals |-> scripts, devtools |-> open]
      [] id = "reload" ->
            [events |-> ev, evals |-> Append(scripts, "location.reload()"), devtools |-> open]
      [] id = "toggle-devtools" ->
            [events |-> ev, evals |-> scripts, devtools |-> ~open]
      [] OTHER ->
            [events |-> ev, evals |-> scripts, devtools |-> open]

\* A menu item is activated: the handler runs, on the main thread.
on_menu_event(id) ==
    /\ Len(clicks) < MaxClicks
    /\ clicks' = Append(clicks, id)
    /\ LET after == IF window THEN MenuMatch(id, events, evals, devtools)
                    ELSE [events |-> events, evals |-> evals, devtools |-> devtools]
       IN  /\ events' = after.events
           /\ evals' = after.evals
           /\ devtools' = after.devtools
    /\ UNCHANGED <<fs, boot, cmdVars, writeVars, dialogVars, autoVars, window>>

---------------------------------------------------------------------------
(* serde_json::from_str::<Settings>: the text must be one JSON object; each *)
(* of the two fields may be missing or null; a field of another type, or    *)
(* given twice, is an error; other members are skipped.                     *)
IsObjectText(t) ==
    /\ Len(t) >= 2
    /\ t[1] = LB
    /\ t[Len(t)] = RB
    /\ \A i \in 2..(Len(t) - 1) : t[i].c = "member"

IsStrings(j) == j.t = "arr" /\ \A i \in 1..Len(j.v) : j.v[i].t = "str"

IsString(j) == j.t = "str"

\* One Option field of the struct, of type Vec<String> or String.
Field(t, key, vec) ==
    LET at == {i \in 2..(Len(t) - 1) : t[i].key = key}
    IN  IF at = {} THEN Ok(None)
        ELSE IF Cardinality(at) > 1 THEN Err("duplicate field")
        ELSE LET j == t[CHOOSE i \in at : TRUE].val
             IN  IF j.t = "null" THEN Ok(None)
                 ELSE IF (IF vec THEN IsStrings(j) ELSE IsString(j)) THEN Ok(Some(j.v))
                 ELSE Err("invalid type")

\* A variant that skips a recentFiles of another type instead of failing.
from_str_lenient(t) ==
    IF ~IsObjectText(t) THEN Err("syntax")
    ELSE LET last == Field(t, "lastOpenedProject", FALSE)
         IN  IF ~last.ok THEN last
             ELSE Ok([recent_files |-> None, last_opened_project |-> last.v])

from_str(t) ==
    IF ~IsObjectText(t) THEN Err("syntax")
    ELSE LET recent == Field(t, "recentFiles", TRUE)
             last == Field(t, "lastOpenedProject", FALSE)
         IN  IF ~recent.ok THEN recent
             ELSE IF ~last.ok THEN last
             ELSE Ok([recent_files |-> recent.v, last_opened_project |-> last.v])

---------------------------------------------------------------------------
(* The auto-load task main() spawns.                                        *)
AutoLoadEvent(p) == [name |-> "auto-load-project", payload |-> p]

\* A variant that takes every path to exist.
exists_unchecked(f, p) == TRUE

\* The auto-loader's check "if file exists".
project_exists(f, p) == exists(f, p)

\* The project the task goes on with, if any: the nested ifs of the task.
\* The envelope of a successful load always holds data.
Eligible(result, f) ==
    IF ~result.success \/ ~IsSome(result.data) THEN None
    ELSE LET settings == from_str(result.data[1])
         IN  IF ~settings.ok THEN None
             ELSE IF ~IsSome(settings.v.last_opened_project) THEN None
             ELSE IF ~project_exists(f, settings.v.last_opened_project[1]) THEN None
             ELSE settings.v.last_opened_project

\* The task starts: it awaits load_settings.
auto_load_settings ==
    /\ al_pc = "Idle"
    /\ FreeWorker
    /\ settings_result' = Some(ReadEnvelope(read_to_string(fs, get_settings_path)))
    /\ al_pc' = "SettingsRead"
    /\ UNCHANGED <<fs, boot, menuVars, cmdVars, writeVars, dialogVars, last_project, elapsed,
                   window, events>>

\* The task parses what it loaded and looks for the project; it ends here or
\* goes to sleep.
auto_check ==
    /\ al_pc = "SettingsRead"
    /\ LET found == Eligible(settings_result[1], fs)
       IN  /\ last_project' = found
           /\ al_pc' = IF IsSome(found) THEN "Delayed" ELSE "Ineligible"
    /\ UNCHANGED <<fs, boot, menuVars, cmdVars, writeVars, dialogVars, settings_result, elapsed,
                   window, events>>

\* tokio::time::sleep: the 1500 ms are over.
sleep_elapsed ==
    /\ al_pc = "Delayed"
    /\ ~elapsed
    /\ elapsed' = TRUE
    /\ UNCHANGED <<fs, boot, menuVars, cmdVars, writeVars, dialogVars, al_pc, settings_result,
                   last_project, window, events>>

\* A variant that emits the notification twice.
EmitTwice(ev, e) == Append(Append(ev, e), e)

\* window.emit: the outcome is dropped.
Emit(ev, e) == Append(ev, e)

\* A variant that does not wait for the sleep to be over.
auto_emit_early ==
    /\ al_pc = "Delayed"
    /\ FreeWorker
    /\ IF window
       THEN /\ events' = Emit(events, AutoLoadEvent(last_project[1]))
            /\ al_pc' = "Emitted"
       ELSE /\ events' = events
            /\ al_pc' = "NoWindow"
    /\ UNCHANGED <<fs, boot, menuVars, cmdVars, writeVars, dialogVars, settings_result,
                   last_project, elapsed, window>>

\* A variant that looks for the project file again after the sleep.
auto_emit_recheck ==
    /\ al_pc = "Delayed"
    /\ elapsed
    /\ FreeWorker
    /\ IF window /\ project_exists(fs, last_project[1])
       THEN /\ events' = Emit(events, AutoLoadEvent(last_project[1]))
            /\ al_pc' = "Emitted"
       ELSE /\ events' = events
            /\ al_pc' = "NoWindow"
    /\ UNCHANGED <<fs, boot, menuVars, cmdVars, writeVars, dialogVars, settings_result,
                   last_project, elapsed, window>>

\* A worker resumes the task after its sleep: it emits, if the window is there.
auto_emit ==
    /\ al_pc = "Delayed"
    /\ elapsed
    /\ FreeWorker
    /\ IF window
       THEN /\ events' = Emit(events, AutoLoadEvent(last_project[1]))
            /\ al_pc' = "Emitted"
       ELSE /\ events' = events
            /\ al_pc' = "NoWindow"
    /\ UNCHANGED <<fs, boot, menuVars, cmdVars, writeVars, dialogVars, settings_result,
                   last_project, elapsed, window>>

\* Outside the process: the window "main" goes away.
window_closed ==
    /\ window
    /\ window' = FALSE
    /\ UNCHANGED <<fs, boot, menuVars, cmdVars, writeVars, dialogVars, autoVars, events>>

\* Outside the process: a project file is removed from the disk.
project_removed(p) ==
    /\ Kind(fs, p) = "file"
    /\ Writers(0, p) = {}
    /\ fs' = [fs EXCEPT ![p] = Absent]
    /\ hist' = [hist EXCEPT ![p] = Untouched]
    /\ UNCHANGED <<boot, menuVars, cmdVars, wr, dialogVars, autoVars, window, events>>

---------------------------------------------------------------------------
(* The texts and the commands the front-end sends.                          *)
LastOpened(p) == Member("lastOpenedProject", JStr(p))
TextEmpty == <<LB, RB>>
TextA == <<LB, LastOpened(ProjA), RB>>
TextB == <<LB, LastOpened(ProjB), RB>>
TextRecentA == <<LB, Member("recentFiles", JArr(<<JStr(ProjB)>>)), LastOpened(ProjA), RB>>
TextForeign == <<LB, Member("recentFiles", JNum(7)), LastOpened(ProjA), RB>>
TextNull == <<LB, Member("lastOpenedProject", JNull), RB>>
TextJunk == <<Junk>>
TextBinary == <<BadUtf8, Junk, Junk>>

FileTexts == {TextEmpty, TextA}
FilePaths == {get_settings_path}
FileCmds ==
    {Cmd("read_file", p, <<>>, JNull) : p \in FilePaths}
    \cup {Cmd("write_file", p, d, JNull) : p \in FilePaths, d \in FileTexts}
    \cup {Cmd("load_settings", <<>>, <<>>, JNull)}
    \cup {Cmd("save_settings", <<>>, d, JNull) : d \in FileTexts}
    \cup {Cmd("create_dir", p, <<>>, JNull) : p \in FilePaths}

\* The disks the file commands start on: nothing there yet, or the settings
\* of an earlier run and a project, one of them not text.
EmptyDisk == [p \in Paths |-> Absent]
UsedDisk(s, a) ==
    [p \in Paths |->
        IF p = app_data_dir THEN Dir
        ELSE IF p = get_settings_path THEN File(s)
        ELSE IF p = ProjA THEN File(a)
        ELSE Absent]
FileDisks == {EmptyDisk, UsedDisk(TextBinary, TextEmpty)}

InitProcess ==
    /\ call = [r \in Req |-> NoCall]
    /\ pc = [r \in Req |-> "idle"]
    /\ res = [r \in Req |-> None]
    /\ wr = [r \in Req |-> NoWrite]
    /\ hist = [p \in Paths |-> Untouched]
    /\ chan = [r \in Req |-> NoChannel]
    /\ picked = [r \in Req |-> <<>>]
    /\ al_pc = "Idle"
    /\ settings_result = None
    /\ last_project = None
    /\ elapsed = FALSE
    /\ events = <<>>
    /\ clicks = <<>>
    /\ evals = <<>>
    /\ devtools = FALSE

InitFile ==
    /\ fs \in FileDisks
    /\ boot = fs
    /\ window = TRUE
    /\ InitProcess

NextFile ==
    \/ \E r \in Req, c \in FileCmds : Invoke(r, c)
    \/ \E r \in Req : Return(r)
    \/ \E r \in Req : read_file(r)
    \/ \E r \in Req : write_file(r)
    \/ \E r \in Req : write_file_write(r)
    \/ \E r \in Req : load_settings(r)
    \/ \E r \in Req : save_settings(r)
    \/ \E r \in Req : save_settings_write(r)
    \/ \E r \in Req : create_dir(r)

SpecFile == InitFile /\ [][NextFile]_vars

\* The settings commands alone, with texts of two lengths.
SettingsTexts == {TextEmpty, TextA}
SettingsCmds ==
    {Cmd("load_settings", <<>>, <<>>, JNull)}
    \cup {Cmd("save_settings", <<>>, d, JNull) : d \in SettingsTexts}
SettingsDisks == {EmptyDisk, UsedDisk(TextRecentA, TextEmpty)}

InitSettings ==
    /\ fs \in SettingsDisks
    /\ boot = fs
    /\ window = TRUE
    /\ InitProcess

NextSettings ==
    \/ \E r \in Req, c \in SettingsCmds : Invoke(r, c)
    \/ \E r \in Req : Return(r)
    \/ \E r \in Req : load_settings(r)
    \/ \E r \in Req : save_settings(r)
    \/ \E r \in Req : save_settings_write(r)

SpecSettings == InitSettings /\ [][NextSettings]_vars

\* The dialogs beside the auto-loader and a read_file of the front-end.
FilterEntry(name, exts) == JObj([name |-> name, extensions |-> exts])
MapsFilter == FilterEntry(JStr("Maps"), JArr(<<JStr("json")>>))
OpenOptions ==
    {JObj([title |-> JStr("Open"), filters |-> JArr(<<MapsFilter>>)]),
     JObj([properties |-> JArr(<<JStr("openDirectory")>>), filters |-> JArr(<<MapsFilter>>)]),
     JObj([properties |-> JArr(<<JStr("createDirectory"), JNum(1), JStr("openDirectory")>>)]),
     JObj([properties |-> JArr(<<JStr("openFile")>>), defaultPath |-> JStr(ProjA)]),
     JObj([properties |-> JStr("openDirectory")])}
SaveOptions ==
    {JObj([defaultPath |-> JStr(ProjB), filters |-> JArr(<<MapsFilter>>)])}
DialogCmds ==
    {Cmd("show_open_dialog", <<>>, <<>>, o) : o \in OpenOptions}
    \cup {Cmd("show_save_dialog", <<>>, <<>>, o) : o \in SaveOptions}
    \cup {Cmd("read_file", ProjA, <<>>, JNull)}
Picks == {None, Some(FilePath(ProjA))}

InitDialog ==
    /\ fs = UsedDisk(TextA, TextJunk)
    /\ boot = fs
    /\ window = TRUE
    /\ InitProcess

NextDialog ==
    \/ \E r \in Req, c \in DialogCmds : Invoke(r, c)
    \/ \E r \in Req : Return(r)
    \/ \E r \in Req : read_file(r)
    \/ \E r \in Req : show_open_dialog(r)
    \/ \E r \in Req : show_save_dialog(r)
    \/ \E r \in Req, path \in Picks : picker_callback(r, path)
    \/ \E r \in Req : picker_dropped(r)
    \/ \E r \in Req : show_open_dialog_recv(r)
    \/ \E r \in Req : show_save_dialog_recv(r)
    \/ auto_load_settings
    \/ auto_check
    \/ sleep_elapsed
    \/ auto_emit

SpecDialog == InitDialog /\ [][NextDialog]_vars

\* The dialogs alone.  The runtime goes on running a command that can run;
\* nothing makes the native picker call back.
PickerCmds ==
    {Cmd("show_open_dialog", <<>>, <<>>, JObj([title |-> JStr("Open")])),
     Cmd("show_save_dialog", <<>>, <<>>, JObj([defaultPath |-> JStr(ProjB)]))}

NextPicker ==
    \/ \E r \in Req, c \in PickerCmds : Invoke(r, c)
    \/ \E r \in Req : Return(r)
    \/ \E r \in Req : show_open_dialog(r)
    \/ \E r \in Req : show_save_dialog(r)
    \/ \E r \in Req, path \in Picks : picker_callback(r, path)
    \/ \E r \in Req : picker_dropped(r)
    \/ \E r \in Req : show_open_dialog_recv(r)
    \/ \E r \in Req : show_save_dialog_recv(r)

FairSpecPicker ==
    /\ InitDialog
    /\ [][NextPicker]_vars
    /\ \A r \in Req :
          /\ WF_vars(show_open_dialog(r))
          /\ WF_vars(show_save_dialog(r))
          /\ WF_vars(show_open_dialog_recv(r))
          /\ WF_vars(show_save_dialog_recv(r))

\* load_settings of the front-end and the auto-loader over a settings file
\* that is missing, does not parse (foreign-shaped, or no JSON), or is fine.
ParseDisks ==
    {EmptyDisk, UsedDisk(TextForeign, TextJunk), UsedDisk(TextJunk, TextJunk),
     UsedDisk(TextA, TextJunk)}

InitParse ==
    /\ fs \in ParseDisks
    /\ boot = fs
    /\ window = TRUE
    /\ InitProcess

NextParse ==
    \/ \E r \in Req : Invoke(r, Cmd("load_settings", <<>>, <<>>, JNull))
    \/ \E r \in Req : Return(r)
    \/ \E r \in Req : load_settings(r)
    \/ auto_load_settings
    \/ auto_check
    \/ sleep_elapsed
    \/ auto_emit

SpecParse == InitParse /\ [][NextParse]_vars

\* The settings store on disks where the directory of the settings file is
\* missing, is there, or cannot be created: a regular file has its name.
BlockedDisk == [p \in Paths |-> IF p = app_data_dir THEN File(TextJunk) ELSE Absent]
SaveDisks == {EmptyDisk, BlockedDisk, UsedDisk(TextEmpty, TextEmpty)}

InitSave ==
    /\ fs \in SaveDisks
    /\ boot = fs
    /\ window = TRUE
    /\ InitProcess

SpecSave == InitSave /\ [][NextSettings]_vars

\* Dialogs whose options carry filter entries of every shape: well formed,
\* the name empty, absent or not a string, the extensions empty, absent,
\* without a string or mixed; and filters that is no sequence.
EmptyNameFilter == FilterEntry(JStr(""), JArr(<<JStr("png")>>))
NoNameFilter == JObj([extensions |-> JArr(<<JStr("json")>>)])
NumberNameFilter == FilterEntry(JNum(5), JArr(<<JStr("json")>>))
NoExtFilter == FilterEntry(JStr("Empty"), JArr(<<>>))
MissingExtFilter == JObj([name |-> JStr("Missing")])
NumberExtFilter == FilterEntry(JStr("Numbers"), JArr(<<JNum(1)>>))
MixedExtFilter == FilterEntry(JStr("Mixed"), JArr(<<JNum(1), JStr("tmx")>>))
FilterOptions ==
    {JObj([filters |-> JArr(<<NoExtFilter, MapsFilter>>)]),
     JObj([filters |-> JArr(<<EmptyNameFilter, MapsFilter>>)]),
     JObj([filters |-> JArr(<<NoNameFilter, MixedExtFilter, MissingExtFilter>>)]),
     JObj([filters |-> JArr(<<NumberExtFilter, MapsFilter, NumberNameFilter>>)]),
     JObj([filters |-> JStr("json")])}
FilterCmds ==
    {Cmd("show_open_dialog", <<>>, <<>>, o) : o \in FilterOptions}
    \cup {Cmd("show_save_dialog", <<>>, <<>>, o) : o \in FilterOptions}

NextFilters ==
    \/ \E r \in Req, c \in FilterCmds : Invoke(r, c)
    \/ \E r \in Req : Return(r)
    \/ \E r \in Req : show_open_dialog(r)
    \/ \E r \in Req : show_save_dialog(r)
    \/ \E r \in Req : picker_callback(r, Some(FilePath(ProjA)))
    \/ \E r \in Req : show_open_dialog_recv(r)
    \/ \E r \in Req : show_save_dialog_recv(r)

SpecFilters == InitDialog /\ [][NextFilters]_vars

\* Concurrent dialogs whose pickers hand over different paths.
HandoffPicks == {None, Some(FilePath(ProjA)), Some(FilePath(ProjB))}

NextHandoff ==
    \/ \E r \in Req, c \in PickerCmds : Invoke(r, c)
    \/ \E r \in Req : Return(r)
    \/ \E r \in Req : show_open_dialog(r)
    \/ \E r \in Req : show_save_dialog(r)
    \/ \E r \in Req, path \in HandoffPicks : picker_callback(r, path)
    \/ \E r \in Req : picker_dropped(r)
    \/ \E r \in Req : show_open_dialog_recv(r)
    \/ \E r \in Req : show_save_dialog_recv(r)

SpecHandoff == InitDialog /\ [][NextHandoff]_vars

\* The menu: any item may be activated, one of another menu too; the window
\* may be gone (the application lives on without it).
Activations == create_menu \cup {"quit"}

InitMenu ==
    /\ fs = EmptyDisk
    /\ boot = fs
    /\ window = TRUE
    /\ InitProcess

NextMenu ==
    \/ \E id \in Activations : on_menu_event(id)
    \/ window_closed

SpecMenu == InitMenu /\ [][NextMenu]_vars

\* The auto-loader beside the saves of the front-end: each slot serves once.
AutoCmds == {Cmd("save_settings", <<>>, TextB, JNull)}

\* The disks the process starts on: no settings, or the settings of an
\* earlier run, with or without the project they name.
AutoDisks ==
    {EmptyDisk}
    \cup {UsedDisk(s, TextJunk) :
            s \in {TextA, TextRecentA, TextForeign, TextNull, TextEmpty, TextJunk}}
    \cup {[UsedDisk(TextA, TextJunk) EXCEPT ![ProjA] = Absent]}

InitAuto ==
    /\ fs \in AutoDisks
    /\ boot = fs
    /\ window = TRUE
    /\ InitProcess

NextAuto ==
    \/ \E r \in Req, c \in AutoCmds : Invoke(r, c)
    \/ \E r \in Req : save_settings(r)
    \/ \E r \in Req : save_settings_write(r)
    \/ auto_load_settings
    \/ auto_check
    \/ sleep_elapsed
    \/ auto_emit
    \/ window_closed
    \/ \E p \in {ProjA} : project_removed(p)

SpecAuto == InitAuto /\ [][NextAuto]_vars

\* The runtime goes on running a task that can run, and the timer fires.
FairSpecAuto ==
    /\ SpecAuto
    /\ WF_vars(auto_load_settings)
    /\ WF_vars(auto_check)
    /\ WF_vars(sleep_elapsed)
    /\ WF_vars(auto_emit)
    /\ \A r \in Req : WF_vars(save_settings(r)) /\ WF_vars(save_settings_write(r))

---------------------------------------------------------------------------
(* Properties of the startup auto-loader.                                   *)

AutoEnded == al_pc \in {"Ineligible", "Emitted", "NoWindow"}
AutoLoadEvents == SelectSeq(events, LAMBDA e : e.name = "auto-load-project")

\* Text t holds a member lastOpenedProject whose value is the path p.
NamesProject(t, p) == \E i \in 1..Len(t) : t[i] = LastOpened(p)

\* C2 as stated: if at startup the settings file holds a document whose
\* lastOpenedProject is a path that exists on disk, the auto-load sequence
\* ends having emitted the notification with that path exactly once.
C2_EmitsOnceForStartupProject ==
    \A p \in {ProjA, ProjB} :
        (/\ Kind(boot, get_settings_path) = "file"
         /\ NamesProject(boot[get_settings_path].c, p)
         /\ Kind(boot, p) # "none"
         /\ AutoEnded)
            => AutoLoadEvents = <<AutoLoadEvent(p)>>

\* C2 amended: if the text the auto-loader itself reads from the settings
\* file parses as a Settings Document whose lastOpenedProject is a path that
\* exists when the auto-loader checks it, the sequence goes into its delay
\* with that path; when it is resumed after the delay it emits the
\* auto-load-project notification carrying exactly that path, once, if the
\* main window exists then, and nothing otherwise; no run emits it twice.
C2_EmitsOnceWhenEligible ==
    /\ [](Len(AutoLoadEvents) <= 1)
    /\ [](al_pc = "Emitted" => AutoLoadEvents = <<AutoLoadEvent(last_project[1])>>)
    /\ [][\A p \in {ProjA, ProjB} :
          (/\ al_pc = "SettingsRead" /\ al_pc' # "SettingsRead"
           /\ settings_result[1].success
           /\ from_str(settings_result[1].data[1]).ok
           /\ from_str(settings_result[1].data[1]).v.last_opened_project = Some(p)
           /\ Kind(fs, p) # "none")
              => al_pc' = "Delayed" /\ last_project' = Some(p)]_vars
    /\ [][(al_pc = "Delayed" /\ al_pc' # "Delayed") =>
            IF window
            THEN al_pc' = "Emitted" /\ events' = Append(events, AutoLoadEvent(last_project[1]))
            ELSE al_pc' = "NoWindow" /\ events' = events]_vars
    /\ <>AutoEnded

\* C2 witness: the settings named project a at startup, the file was there,
\* and the sequence has emitted the one notification for it.
C2_Witness ==
    /\ boot[get_settings_path] = File(TextA)
    /\ al_pc = "Emitted"
    /\ events = <<AutoLoadEvent(ProjA)>>

\* The loaded text has no lastOpenedProject, or a null one.
LastAbsent(t) ==
    \A i \in 1..Len(t) :
        (t[i].c = "member" /\ t[i].key = "lastOpenedProject") => t[i].val = JNull

\* The loaded text names a project that is not on the disk.
LastMissing(t, f) ==
    \E i \in 1..Len(t) :
        /\ t[i].c = "member" /\ t[i].key = "lastOpenedProject"
        /\ t[i].val.t = "str" /\ Kind(f, t[i].val.v) = "none"

\* C3: if the settings load fails, or lastOpenedProject is absent, or the path
\* it names does not exist when checked, the sequence ends there: it emits
\* nothing then or later, hands no envelope to anyone and takes no further
\* step.
C3_IneligibleSilent ==
    /\ [][(/\ al_pc = "SettingsRead" /\ al_pc' # "SettingsRead"
           /\ \/ ~settings_result[1].success
              \/ LastAbsent(settings_result[1].data[1])
              \/ LastMissing(settings_result[1].data[1], fs))
              => al_pc' = "Ineligible" /\ events' = events /\ res' = res]_vars
    /\ [](al_pc = "Ineligible" => AutoLoadEvents = <<>>)
    /\ [][al_pc = "Ineligible" => al_pc' = "Ineligible"]_vars

\* C3 witness: the settings name project a, the file is not on the disk, and
\* the sequence has ended without a notification.
C3_Witness ==
    /\ al_pc = "Ineligible"
    /\ settings_result = Some(Success(Some(TextA)))
    /\ Kind(fs, ProjA) = "none"
    /\ events = <<>>

\* The step of the auto-loader from state a to state b.
AutoStep(a, b) == al_pc = a /\ al_pc' = b

\* C18 as stated: the auto-loader starts once and moves only along
\* Idle -> SettingsRead -> Delayed -> Emitted or Idle -> SettingsRead ->
\* Ineligible; a notification is emitted only in the step Delayed -> Emitted,
\* after the settings were read, the path found and the delay over; Emitted
\* and Ineligible are terminal.
C18_FourStateOrdering ==
    /\ [](al_pc \in {"Idle", "SettingsRead", "Delayed", "Emitted", "Ineligible"})
    /\ [][\/ al_pc' = al_pc
          \/ AutoStep("Idle", "SettingsRead")
          \/ AutoStep("SettingsRead", "Delayed")
          \/ AutoStep("SettingsRead", "Ineligible")
          \/ AutoStep("Delayed", "Emitted")]_vars
    /\ [][AutoLoadEvents' # AutoLoadEvents =>
            AutoStep("Delayed", "Emitted") /\ elapsed /\ IsSome(settings_result)
                /\ IsSome(last_project)]_vars

\* C18 amended: the auto-loader starts once and moves only along
\* Idle -> SettingsRead -> Delayed -> Emitted, Idle -> SettingsRead ->
\* Ineligible, or Idle -> SettingsRead -> Delayed -> ended without a
\* notification, the last when the main window is gone after the delay.  A
\* notification is emitted only in the step Delayed -> Emitted, one, with
\* the window there, after the settings were read, the path found and the
\* delay over.  The three end states are terminal: no step and no emission
\* follows.
C18_OrderingWithWindowlessEnd ==
    /\ [](al_pc \in {"Idle", "SettingsRead", "Delayed", "Emitted", "Ineligible", "NoWindow"})
    /\ [][\/ al_pc' = al_pc
          \/ AutoStep("Idle", "SettingsRead")
          \/ AutoStep("SettingsRead", "Delayed")
          \/ AutoStep("SettingsRead", "Ineligible")
          \/ AutoStep("Delayed", "Emitted") /\ window
          \/ AutoStep("Delayed", "NoWindow") /\ ~window]_vars
    /\ [][AutoLoadEvents' # AutoLoadEvents =>
            /\ AutoStep("Delayed", "Emitted") /\ elapsed /\ IsSome(settings_result)
            /\ IsSome(last_project)
            /\ Len(AutoLoadEvents') = Len(AutoLoadEvents) + 1]_vars
    /\ [][AutoEnded => (al_pc' = al_pc /\ AutoLoadEvents' = AutoLoadEvents)]_vars

\* C18 witness: the sequence has gone all its way and emitted.
C18_Witness ==
    /\ al_pc = "Emitted"
    /\ elapsed
    /\ IsSome(settings_result) /\ settings_result[1].success
    /\ Len(AutoLoadEvents) = 1

\* C20: the settings are read once and the project looked for once, both
\* before the delay.  While the auto-loader is Delayed, a save_settings that
\* changes lastOpenedProject or the removal of the project file neither ends
\* the sequence nor changes the path it carries; resumed with the window
\* there it emits that path, once, whatever the disk holds by then.
C20_DecidesOnceCarriesPath ==
    /\ [][settings_result' # settings_result => AutoStep("Idle", "SettingsRead")]_vars
    /\ [][last_project' # last_project => AutoStep("SettingsRead", "Delayed")]_vars
    /\ [][(al_pc = "Delayed" /\ (fs' # fs \/ pc' # pc)) =>
            al_pc' = "Delayed" /\ last_project' = last_project /\ events' = events]_vars
    /\ [][(al_pc = "Delayed" /\ al_pc' # "Delayed" /\ window) =>
            /\ al_pc' = "Emitted"
            /\ AutoLoadEvents' = <<AutoLoadEvent(last_project[1])>>]_vars
    /\ [][al_pc = "Emitted" => AutoLoadEvents' = AutoLoadEvents]_vars

\* C20 witness: the notification for project a was emitted although, since
\* the check, the project file was removed and a save put project b into the
\* settings file.
C20_Witness ==
    /\ al_pc = "Emitted"
    /\ events = <<AutoLoadEvent(ProjA)>>
    /\ Kind(fs, ProjA) = "none"
    /\ fs[get_settings_path] = File(TextB)

\* The settings file holds a text that does not parse as a Settings Document.
Unparsable ==
    /\ Kind(fs, get_settings_path) = "file"
    /\ fs[get_settings_path].c \in {TextForeign, TextJunk}

\* C17 as stated: a settings document that fails to parse is treated as a
\* missing file is: load_settings returns a failure envelope, and the
\* auto-loader emits no notification.
C17_UnparsableAsMissing ==
    Unparsable =>
        /\ AutoLoadEvents = <<>>
        /\ \A r \in Req :
              (pc[r] = "done" /\ call[r].op = "load_settings") => ~res[r][1].success

\* C17 amended: the auto-loader treats a settings document that fails to
\* parse as it treats a missing file: it ends without a notification.
\* load_settings does not parse: for such a file it returns success=true
\* with the text as it is, and a failure envelope only for the missing file.
C17_UnparsableSilentButLoaded ==
    (Unparsable \/ Kind(fs, get_settings_path) = "none") =>
        /\ AutoLoadEvents = <<>>
        /\ al_pc \in {"Idle", "SettingsRead", "Ineligible"}
        /\ \A r \in Req :
              (pc[r] = "done" /\ call[r].op = "load_settings") =>
                  res[r] = IF Unparsable
                           THEN Some(Success(Some(fs[get_settings_path].c)))
                           ELSE Some(Failure("NotFound"))

\* C17 witness: the settings file holds the foreign-shaped document; the
\* auto-loader has ended without a notification, and load_settings has
\* returned the document.
C17_Witness ==
    /\ fs[get_settings_path] = File(TextForeign)
    /\ al_pc = "Ineligible"
    /\ events = <<>>
    /\ \E r \in Req : pc[r] = "done" /\ res[r] = Some(Success(Some(TextForeign)))

---------------------------------------------------------------------------
(* Properties of the file service and the settings store.                   *)

\* Invocation r of command op runs and returns in this step.
Returns(r, op) == pc[r] = "queued" /\ pc'[r] = "done" /\ call[r].op = op

\* The last write call on p was a finished call of op, nothing since.
LastCall(p, op, sts) == hist[p].op = op /\ hist[p].st \in sts

\* C5 as stated: under any interleaving of save_settings and load_settings
\* calls, once all saves have completed the settings file holds exactly the
\* text of the save whose write was performed last, and every successful load
\* returns the whole text of one save, or the initial content.
C5_LastWriterWinsWhole ==
    /\ ((\A r \in Req : pc[r] # "opened") /\ hist[get_settings_path].st \in {"ok", "torn"})
            => fs[get_settings_path] = File(hist[get_settings_path].c)
    /\ \A r \in Req :
          (pc[r] = "done" /\ call[r].op = "load_settings" /\ res[r][1].success)
              => \/ res[r][1].data[1] \in SettingsTexts
                 \/ /\ Kind(boot, get_settings_path) = "file"
                    /\ res[r][1].data[1] = boot[get_settings_path].c

\* C5 amended: the settings file is accessed with no locking.  A save whose
\* truncation and write are not interleaved with the truncation or write of
\* another save leaves the file holding exactly its text until the next save
\* begins, and a load run then returns that text whole; a successful load run
\* before any save has begun returns the initial content.
C5_LastWriterWinsUnoverlapped ==
    /\ [](LastCall(get_settings_path, "save_settings", {"ok"})
            => fs[get_settings_path] = File(hist[get_settings_path].c))
    /\ [][\A r \in Req : Returns(r, "load_settings") =>
            /\ LastCall(get_settings_path, "save_settings", {"ok"})
                  => res'[r] = Some(Success(Some(hist[get_settings_path].c)))
            /\ (hist[get_settings_path].st = "untouched" /\ res'[r][1].success)
                  => res'[r][1].data = Some(boot[get_settings_path].c)]_vars

\* C5 witness: two saves overlapped, the second truncation fell between the
\* truncation and the write of the first; the save that came through
\* unoverlapped was the last to write, and a load returned its text.
C5_Witness ==
    \E r, q \in Req :
        /\ pc[r] = "done" /\ call[r].op = "load_settings"
        /\ LastCall(get_settings_path, "save_settings", {"ok"})
        /\ res[r] = Some(Success(Some(hist[get_settings_path].c)))
        /\ pc[q] = "opened" /\ call[q].op = "save_settings" /\ ~wr[q].clean
        /\ call[q].data # hist[get_settings_path].c

\* C6 as stated: for every text json, save_settings(json) followed by
\* load_settings(), no other settings write between them, yields success=true
\* and data = json, whether or not the save could be done.
C6_RoundTripEverySave ==
    [][\A r \in Req :
        (Returns(r, "load_settings")
            /\ LastCall(get_settings_path, "save_settings", {"ok", "failed"}))
            => res'[r] = Some(Success(Some(hist[get_settings_path].c)))]_vars

\* C6 amended: save_settings(json) creates a missing parent directory and
\* returns success=true unless the settings path is a directory or the
\* app-data path is a regular file; whenever it returned success=true, a
\* load_settings() that follows it with no other settings write in between
\* yields success=true and data = json byte for byte.
C6_RoundTripAfterSuccess ==
    /\ [][\A r \in Req :
          (pc[r] = "queued" /\ pc'[r] # "queued" /\ call[r].op = "save_settings"
              /\ Kind(fs, app_data_dir) # "file" /\ Kind(fs, get_settings_path) # "dir")
              => pc'[r] = "opened" /\ Kind(fs', app_data_dir) = "dir"]_vars
    /\ [][\A r \in Req :
          (pc[r] = "opened" /\ pc'[r] = "done" /\ call[r].op = "save_settings")
              => res'[r] = Some(Success(None))]_vars
    /\ [][\A r \in Req :
          (Returns(r, "load_settings") /\ LastCall(get_settings_path, "save_settings", {"ok"}))
              => res'[r] = Some(Success(Some(hist[get_settings_path].c)))]_vars

\* C6 witness: a load_settings returned the text of a save_settings that had
\* found the parent directory missing.
C6_Witness ==
    \E r \in Req :
        /\ pc[r] = "done" /\ call[r].op = "load_settings"
        /\ LastCall(get_settings_path, "save_settings", {"ok"})
        /\ hist[get_settings_path].made
        /\ res[r] = Some(Success(Some(hist[get_settings_path].c)))

\* C7 as stated: for all paths p and contents c, write_file(p, c) followed by
\* read_file(p), no other write to p between them, yields success=true and
\* data=c, whether or not the write could be done.
C7_RoundTripEveryPath ==
    [][\A r \in Req :
        (Returns(r, "read_file") /\ LastCall(call[r].path, "write_file", {"ok", "failed"}))
            => res'[r] = Some(Success(Some(hist[call[r].path].c)))]_vars

\* C7 amended: whenever write_file(p, c) returns success=true it has replaced
\* the content of p wholesale by c, and a read_file(p) that follows it with no
\* other write to p in between yields success=true and data=c.
C7_RoundTripAfterSuccess ==
    /\ [](\A p \in Paths : LastCall(p, "write_file", {"ok"}) => fs[p] = File(hist[p].c))
    /\ [][\A r \in Req :
          (Returns(r, "read_file") /\ LastCall(call[r].path, "write_file", {"ok"}))
              => res'[r] = Some(Success(Some(hist[call[r].path].c)))]_vars

\* C7 witness: a read_file returned the text a write_file had put in place of
\* a longer text that was there when the process started.
C7_Witness ==
    \E r \in Req :
        /\ pc[r] = "done" /\ call[r].op = "read_file"
        /\ LastCall(call[r].path, "write_file", {"ok"})
        /\ res[r] = Some(Success(Some(hist[call[r].path].c)))
        /\ Kind(boot, call[r].path) = "file"
        /\ Len(boot[call[r].path].c) > Len(hist[call[r].path].c)

\* C8: every envelope returned by read_file, write_file, load_settings,
\* save_settings and create_dir has success = true iff error is absent; data
\* is present only on success and only for read_file and load_settings.
C8_EnvelopeInvariant ==
    \A r \in Req :
        (pc[r] = "done" /\ call[r].op \in
            {"read_file", "write_file", "load_settings", "save_settings", "create_dir"})
        => /\ res[r][1].success <=> (res[r][1].error = None)
           /\ IsSome(res[r][1].data)
                => (res[r][1].success /\ call[r].op \in {"read_file", "load_settings"})

\* C8 witness: a successful load_settings with its payload beside a failed
\* read_file.
C8_Witness ==
    \E r, q \in Req :
        /\ pc[r] = "done" /\ call[r].op = "load_settings" /\ res[r][1].success
        /\ IsSome(res[r][1].data)
        /\ pc[q] = "done" /\ call[q].op = "read_file" /\ ~res[q][1].success
        /\ IsSome(res[q][1].error)

\* C9: read_file on a path that does not exist returns, in the one step it
\* runs, exactly one envelope with success=false, no data and a non-empty
\* error string, and leaves the file system as it was.
C9_ReadMissing ==
    [][\A r \in Req :
        (Returns(r, "read_file") /\ Kind(fs, call[r].path) = "none")
            => /\ Len(res'[r]) = 1
               /\ ~res'[r][1].success
               /\ res'[r][1].data = None
               /\ IsSome(res'[r][1].error) /\ res'[r][1].error[1] # ""
               /\ fs' = fs]_vars

\* C9 witness: a read_file has returned its failure for a path that is not
\* on the disk.
C9_Witness ==
    \E r \in Req :
        /\ pc[r] = "done" /\ call[r].op = "read_file"
        /\ Kind(fs, call[r].path) = "none"
        /\ res[r] = Some(Failure("NotFound"))

\* The error of opening the settings file for writing on file system f.
SettingsOpenError(f) ==
    IF Kind(f, app_data_dir) = "none" THEN "NotFound"
    ELSE IF Kind(f, app_data_dir) = "file" THEN "NotADirectory"
    ELSE IF Kind(f, get_settings_path) = "dir" THEN "IsADirectory"
    ELSE "none"

\* C16: save_settings never surfaces a failure of creating the parent
\* directory: whether or not the directory could be created the write of the
\* settings text is attempted, and the envelope tells the outcome of that
\* write alone: success=true when the write succeeds, the error of the write
\* when it fails.
C16_DirectoryFailureSwallowed ==
    /\ [][\A r \in Req :
          (pc[r] = "queued" /\ pc'[r] # "queued" /\ call[r].op = "save_settings") =>
              /\ hist'[get_settings_path].op = "save_settings"
              /\ IF SettingsOpenError(fs') = "none"
                 THEN /\ pc'[r] = "opened"
                      /\ hist'[get_settings_path].st = "open"
                      /\ fs'[get_settings_path] = File(<<>>)
                 ELSE /\ pc'[r] = "done"
                      /\ hist'[get_settings_path].st = "failed"
                      /\ res'[r] = Some(Failure(SettingsOpenError(fs')))]_vars
    /\ [][\A r \in Req :
          (pc[r] = "opened" /\ pc'[r] # "opened" /\ call[r].op = "save_settings") =>
              pc'[r] = "done" /\ res'[r] = Some(Success(None))]_vars

\* C16 witness: the directory of the settings file could not be created, a
\* regular file being in its place; the write was attempted, and the save
\* returned the error of the write.
C16_Witness ==
    \E r \in Req :
        /\ pc[r] = "done" /\ call[r].op = "save_settings"
        /\ Kind(fs, app_data_dir) = "file"
        /\ ~create_dir_all(fs, app_data_dir).ok
        /\ hist[get_settings_path].st = "failed"
        /\ res[r] = Some(Failure("NotADirectory"))

---------------------------------------------------------------------------
(* Properties of the dialog bridge.                                         *)

IsDialog(c) == c # NoCall /\ c.op \in {"show_open_dialog", "show_save_dialog"}

\* The fail-safe canceled result of a dialog command.
Canceled(c) ==
    IF c.op = "show_save_dialog" THEN [canceled |-> TRUE, filePath |-> None]
    ELSE [canceled |-> TRUE, filePaths |-> <<>>]

\* C1 as stated: every invocation of show_open_dialog or show_save_dialog
\* eventually returns its one outcome to the caller; the request never hangs.
C1_AlwaysReturns ==
    \A r \in Req : (pc[r] \in {"queued", "recv"} /\ IsDialog(call[r])) ~> (pc[r] = "done")

\* C1, amended: a dialog request that is started reaches its wait; once the
\* picker has called the callback or dropped it, the request eventually
\* returns; what it returns is the one value the callback sent, or the
\* fail-safe canceled result if none was sent; at most one value is ever
\* sent, and a result delivered is not replaced.  (While the picker holds
\* the callback without calling it, the request stays pending.)
C1_ReturnsOnceAfterCallback ==
    /\ \A r \in Req : (pc[r] = "queued" /\ IsDialog(call[r])) ~> (pc[r] = "recv")
    /\ \A r \in Req : (pc[r] = "recv" /\ ~chan[r].tx) ~> (pc[r] = "done")
    /\ [](\A r \in Req : Len(chan[r].q) <= 1 /\ (chan[r].q # <<>> => ~chan[r].tx))
    /\ [][\A r \in Req :
          /\ (pc[r] = "recv" /\ pc'[r] # "recv") =>
                /\ ~chan[r].tx
                /\ pc'[r] = "done"
                /\ res'[r] = Some(IF chan[r].q # <<>> THEN chan[r].q[1] ELSE Canceled(call[r]))
                /\ chan'[r].q = <<>>
          /\ (pc[r] = "done" /\ pc'[r] = "done") => res'[r] = res[r]
          /\ (pc[r] = "done" /\ pc'[r] # "done") => pc'[r] = "idle"]_vars

\* One dialog has returned the path picked while another, whose callback
\* was dropped or called with no path, has returned the canceled result.
C1_Witness ==
    \E r, q \in Req :
        /\ pc[r] = "done" /\ IsDialog(call[r]) /\ ~res[r][1].canceled
        /\ pc[q] = "done" /\ IsDialog(call[q]) /\ res[q] = Some(Canceled(call[q]))

\* A dialog request that waits for a picker which has not answered.
Pending(r) == pc[r] = "recv" /\ chan[r].tx /\ chan[r].q = <<>>

\* A command or the auto-loader is ready to start or to go on.
ReadyToRun ==
    \/ \E r \in Req : pc[r] = "queued"
    \/ al_pc = "Idle"
    \/ al_pc = "Delayed" /\ elapsed

\* C4 as stated: however many dialog requests are pending on their channel
\* receive, another command and the startup auto-loader can still start and
\* run: when nothing but pending dialogs occupies the workers, whatever is
\* ready to run has a worker to run on.
C4_PendingDialogsBlockNothing ==
    (/\ \A r \in Busy : Pending(r)
     /\ al_pc # "SettingsRead"
     /\ ReadyToRun)
        => FreeWorker

\* The flag "openDirectory" is an element of the sequence properties.
ContainsOpenDirectory(options) ==
    /\ options.t = "obj"
    /\ "properties" \in DOMAIN options.v
    /\ options.v.properties.t = "arr"
    /\ \E i \in 1..Len(options.v.properties.v) :
          /\ options.v.properties.v[i].t = "str"
          /\ options.v.properties.v[i].v = "openDirectory"

\* C10: show_open_dialog invokes the folder picker if and only if the
\* properties sequence contains "openDirectory", whatever the filters; each
\* invocation invokes exactly one of the two pickers, exactly once, when it
\* is started, and none before.
C10_PickerRouting ==
    \A r \in Req :
        (call[r] # NoCall /\ call[r].op = "show_open_dialog") =>
            IF pc[r] = "queued" THEN picked[r] = <<>>
            ELSE /\ Len(picked[r]) = 1
                 /\ picked[r][1].kind =
                       IF ContainsOpenDirectory(call[r].opts) THEN "pick_folder" ELSE "pick_file"

\* A folder pick was routed although filters were given, and beside it a
\* request without the flag went to the file picker.
C10_Witness ==
    \E r, q \in Req :
        /\ call[r] # NoCall /\ call[r].op = "show_open_dialog" /\ pc[r] = "done"
        /\ picked[r][1].kind = "pick_folder" /\ picked[r][1].builder.filters # <<>>
        /\ call[q] # NoCall /\ call[q].op = "show_open_dialog" /\ pc[q] = "recv"
        /\ picked[q][1].kind = "pick_file"

\* Dialog request r has returned.
Returned(r) == pc[r] = "done" /\ IsDialog(call[r])

\* What became of the callback of request r.
Answer(r) == picked[r][1].answer[1]

\* The path field of a result: the paths of an open dialog, the Option of
\* the path of a save dialog, as a sequence either way.
PathField(c, v) == IF c.op = "show_save_dialog" THEN v.filePath ELSE v.filePaths

\* C11: every result returned by show_open_dialog or show_save_dialog has
\* canceled = true exactly when its path field is empty (filePaths = [],
\* filePath = null), and canceled = false exactly when the path field holds
\* the path the picker produced; none has a path together with canceled.
C11_DialogResultInvariant ==
    \A r \in Req :
        Returned(r) =>
            LET v == res[r][1]
                field == PathField(call[r], v)
            IN  /\ v.canceled <=> (field = <<>>)
                /\ ~v.canceled <=>
                      (/\ Answer(r).called
                       /\ IsSome(Answer(r).path)
                       /\ field = <<Answer(r).path[1].path>>)

\* C11 witness: an open dialog returned the path picked, not canceled, and a
\* save dialog returned canceled with no path.
C11_Witness ==
    \E r, q \in Req :
        /\ Returned(r) /\ call[r].op = "show_open_dialog"
        /\ res[r] = Some([canceled |-> FALSE, filePaths |-> <<ProjA>>])
        /\ Returned(q) /\ call[q].op = "show_save_dialog"
        /\ res[q] = Some([canceled |-> TRUE, filePath |-> None])

\* C12: a dialog request whose callback was dropped without a value sent
\* returns {canceled: true, filePaths: []} (open) or {canceled: true,
\* filePath: null} (save): the very result of a dismissal by the user, with
\* no error in it.
C12_FailSafeCanceled ==
    \A r \in Req :
        (Returned(r) /\ ~IsSome(Answer(r).path)) =>
            /\ res[r] = Some(Canceled(call[r]))
            /\ DOMAIN res[r][1] =
                  IF call[r].op = "show_save_dialog" THEN {"canceled", "filePath"}
                  ELSE {"canceled", "filePaths"}

\* C12 witness: two open dialogs have returned the same result, the callback
\* of one dropped, that of the other called with no path.
C12_Witness ==
    \E r, q \in Req :
        /\ Returned(r) /\ call[r].op = "show_open_dialog" /\ Answer(r) = Dropped
        /\ Returned(q) /\ call[q].op = "show_open_dialog" /\ Answer(q) = Called(None)
        /\ res[r] = res[q]

\* The outcome of a request whose callback fared as a tells.
OutcomeOf(c, a) ==
    IF a.called /\ IsSome(a.path)
    THEN IF c.op = "show_save_dialog"
         THEN [canceled |-> FALSE, filePath |-> Some(a.path[1].path)]
         ELSE [canceled |-> FALSE, filePaths |-> <<a.path[1].path>>]
    ELSE Canceled(c)

\* C19: each dialog invocation creates its own channel when it is started;
\* a step writes or reads the channel of one request only; a channel never
\* holds more than one value, and is read once, when its request returns;
\* under any interleaving each request returns the outcome of its own
\* picker.
C19_HandoffIsolation ==
    /\ [](\A r \in Req : Len(chan[r].q) <= 1)
    /\ [](\A r \in Req : Returned(r) =>
            /\ IsSome(picked[r][1].answer)
            /\ res[r] = Some(OutcomeOf(call[r], Answer(r)))
            /\ chan[r].q = <<>>)
    /\ [][\A r \in Req :
          /\ (pc[r] = "queued" /\ pc'[r] = "recv") => chan'[r] = NewChannel
          /\ chan'[r] # chan[r] => \A q \in Req \ {r} : chan'[q] = chan[q] /\ res'[q] = res[q]
          /\ (pc[r] = "recv" /\ chan'[r].q # chan[r].q) =>
                IF chan[r].q = <<>>
                THEN chan[r].tx /\ ~chan'[r].tx /\ pc'[r] = "recv"
                ELSE pc'[r] = "done" /\ res'[r] = Some(chan[r].q[1])]_vars

\* C19 witness: of two concurrent dialogs one has returned project a and the
\* other project b, each the path its own picker handed over.
C19_Witness ==
    \E r, q \in Req :
        /\ Returned(r) /\ call[r].op = "show_open_dialog"
        /\ Answer(r) = Called(Some(FilePath(ProjA)))
        /\ res[r] = Some([canceled |-> FALSE, filePaths |-> <<ProjA>>])
        /\ Returned(q) /\ call[q].op = "show_save_dialog"
        /\ Answer(q) = Called(Some(FilePath(ProjB)))
        /\ res[q] = Some([canceled |-> FALSE, filePath |-> Some(ProjB)])

\* The entries of options.filters, if that is a sequence.
Entries(options) ==
    IF options.t = "obj" /\ "filters" \in DOMAIN options.v /\ options.v.filters.t = "arr"
    THEN options.v.filters.v
    ELSE <<>>

\* The entry has a name that is a string.
HasName(e) == e.t = "obj" /\ "name" \in DOMAIN e.v /\ e.v.name.t = "str"

\* The strings among the extensions of the entry.
StringExts(e) ==
    IF e.t = "obj" /\ "extensions" \in DOMAIN e.v /\ e.v.extensions.t = "arr"
    THEN LET strs == SelectSeq(e.v.extensions.v, LAMBDA x : x.t = "str")
         IN  [i \in 1..Len(strs) |-> strs[i].v]
    ELSE <<>>

\* The filters registered for the entries es, one per entry as it is.
Registered(es) == [i \in 1..Len(es) |-> [name |-> es[i].v.name.v, exts |-> StringExts(es[i])]]

\* Dialog request r has been started: its picker was invoked, once.
Underway(r) == IsDialog(call[r]) /\ pc[r] \in {"recv", "done"}

\* C13 as stated: a filter entry is registered exactly if it has a non-empty
\* name and a non-empty extension list; the others are skipped, the request
\* does not fail, and the registered ones keep their order.
C13_RegistersNonEmptyNames ==
    \A r \in Req :
        Underway(r) =>
            /\ Len(picked[r]) = 1
            /\ picked[r][1].builder.filters =
                  Registered(SelectSeq(Entries(call[r].opts),
                      LAMBDA e : HasName(e) /\ e.v.name.v # "" /\ StringExts(e) # <<>>))

\* C13 amended: a filter entry is registered exactly if its name is a string,
\* empty or not, and its extensions are a sequence with at least one string
\* in it; it is registered with that name and those strings.  Every other
\* entry is skipped, the request does not fail, and the registered entries
\* keep their order.
C13_RegistersStringNames ==
    \A r \in Req :
        Underway(r) =>
            /\ Len(picked[r]) = 1
            /\ picked[r][1].builder.filters =
                  Registered(SelectSeq(Entries(call[r].opts),
                      LAMBDA e : HasName(e) /\ StringExts(e) # <<>>))

\* C13 witness: of two entries the first, whose name is empty, and the
\* second were both registered, in this order.
C13_Witness ==
    \E r \in Req :
        /\ Underway(r)
        /\ Entries(call[r].opts) = <<EmptyNameFilter, MapsFilter>>
        /\ picked[r][1].builder.filters =
              <<[name |-> "", exts |-> <<"png">>], [name |-> "Maps", exts |-> <<"json">>]>>

\* C14: a filter entry whose extensions are empty, or hold no string, is
\* never registered, and the request goes on: the picker is invoked and a
\* Dialog Result returned.
C14_EmptyExtensionsSkipped ==
    \A r \in Req :
        Underway(r) =>
            /\ Len(picked[r]) = 1
            /\ \A j \in 1..Len(picked[r][1].builder.filters) :
                  /\ picked[r][1].builder.filters[j].exts # <<>>
                  /\ \A i \in 1..Len(Entries(call[r].opts)) :
                        LET e == Entries(call[r].opts)[i]
                        IN  (HasName(e) /\ StringExts(e) = <<>>)
                                => picked[r][1].builder.filters[j].name # e.v.name.v
            /\ pc[r] = "done" => "canceled" \in DOMAIN res[r][1]

\* C14 witness: a dialog whose first filter entry has no extensions has
\* returned the path picked; only the second entry was registered.
C14_Witness ==
    \E r \in Req :
        /\ Returned(r)
        /\ Entries(call[r].opts) = <<NoExtFilter, MapsFilter>>
        /\ picked[r][1].builder.filters = <<[name |-> "Maps", exts |-> <<"json">>]>>
        /\ ~res[r][1].canceled

---------------------------------------------------------------------------
(* Properties of the menu relay.                                            *)

\* The notification of a menu item id.
NotificationOf(id) ==
    CASE id = "new-project" -> "menu:new-project"
      [] id = "open-project" -> "menu:open-project"
      [] id = "new-map" -> "menu:new-map"
      [] id = "new-tileset" -> "menu:new-tileset"
      [] id = "new-entity" -> "menu:new-entity"
      [] id = "save-project" -> "menu:save-project"
      [] id = "save-project-as" -> "menu:save-project-as"
      [] id = "undo" -> "menu:undo"
      [] id = "redo" -> "menu:redo"
      [] id = "cut" -> "menu:cut"
      [] id = "copy" -> "menu:copy"
      [] id = "paste" -> "menu:paste"
      [] id = "reload" -> "menu:reload"
      [] id = "toggle-devtools" -> "menu:toggle-devtools"
      [] OTHER -> "none"

\* C15 as stated: each activation of a declared menu item emits exactly one
\* notification for that id toward the front-end; an id outside the declared
\* set emits nothing.
C15_OneNotificationPerActivation ==
    [][\A id \in Activations :
        clicks' = Append(clicks, id) =>
            IF id \in create_menu
            THEN events' = Append(events, MenuEvent(NotificationOf(id)))
            ELSE events' = events]_vars

====
